---- MODULE Spec2Model ----
(***************************************************************************)
(* LoRAPatcherExt (invokeai/backend/stable_diffusion/extensions/           *)
(* lora_patcher.py): patching LoRA deltas into a torch module tree and     *)
(* restoring the original weights.                                         *)
(*                                                                         *)
(* Strings are sequences of one-character strings, so that startswith,     *)
(* split("_"), lstrip(".") and rpartition(".") are computed as Python      *)
(* computes them.  Numbers are fixed-point: an integer n stands for the    *)
(* real n/4.  Every value the model produces is a small dyadic rational,   *)
(* which float16, bfloat16 and float32 all represent exactly, so the       *)
(* arithmetic of the tensors is exact on the modelled values.              *)
(***************************************************************************)
EXTENDS Integers, Sequences, FiniteSets, TLC

(***************************************************************************)
(* Bounds of the exploration.                                              *)
(***************************************************************************)
\* how many patch scopes may be open inside one another
MaxDepth == 2
\* how many patch scopes are opened in one behaviour
MaxSessions == 2

(***************************************************************************)
(* Python string operations, on sequences of characters.                   *)
(***************************************************************************)
\* s.startswith(p)
StartsWith(s, p) == Len(s) >= Len(p) /\ SubSeq(s, 1, Len(p)) = p

\* s[n:]
DropFirst(s, n) == SubSeq(s, n + 1, Len(s))

\* sep in s   (sep a single character)
Contains(s, sep) == \E i \in 1..Len(s) : s[i] = sep

\* s.find(sep) as a 1-based index; only used when sep occurs in s
FirstIndex(s, sep) == CHOOSE i \in 1..Len(s) : s[i] = sep /\ \A j \in 1..(i - 1) : s[j] # sep

\* s.rfind(sep) as a 1-based index; only used when sep occurs in s
LastIndex(s, sep) == CHOOSE i \in 1..Len(s) : s[i] = sep /\ \A j \in (i + 1)..Len(s) : s[j] # sep

\* s.split(sep): "" splits into [""], "a__b" into ["a", "", "b"]
RECURSIVE Split(_, _)
Split(s, sep) ==
    IF ~Contains(s, sep) THEN << s >>
    ELSE << SubSeq(s, 1, FirstIndex(s, sep) - 1) >> \o Split(DropFirst(s, FirstIndex(s, sep)), sep)

\* s.lstrip(ch)
RECURSIVE LStrip(_, _)
LStrip(s, ch) == IF s # << >> /\ Head(s) = ch THEN LStrip(Tail(s), ch) ELSE s

\* s.rpartition(sep): (head, tail) around the last sep; ("", s) when sep is absent
RPartition(s, sep) ==
    IF Contains(s, sep)
    THEN [head |-> SubSeq(s, 1, LastIndex(s, sep) - 1), tail |-> DropFirst(s, LastIndex(s, sep))]
    ELSE [head |-> << >>, tail |-> s]

\* sep.join(parts)
RECURSIVE Join(_, _)
Join(parts, sep) ==
    IF parts = << >> THEN << >>
    ELSE IF Len(parts) = 1 THEN parts[1]
    ELSE parts[1] \o << sep >> \o Join(Tail(parts), sep)

(***************************************************************************)
(* The model to patch: a torch.nn.Module tree.  A module is the sequence   *)
(* of child names leading to it from the root; a child name is a string    *)
(* that may itself contain "_" (never "." and never empty).                *)
(*                                                                         *)
(*   root ── a ──── b_c        a: weight, bias;  a.b_c: weight             *)
(*        ├─ a_b               weight                                      *)
(*        └─ c ──── b ── c     c.b: weight;  c.b.c: weight                 *)
(*             └─── b_c        weight                                      *)
(*                                                                         *)
(* root and c own no parameter.                                            *)
(***************************************************************************)
NameA == << "a" >>
NameB == << "b" >>
NameC == << "c" >>
NameAB == << "a", "_", "b" >>
NameBC == << "b", "_", "c" >>

Root == << >>
ModA == << NameA >>
ModA_BC == << NameA, NameBC >>
ModAB == << NameAB >>
ModC == << NameC >>
ModC_B == << NameC, NameB >>
ModC_B_C == << NameC, NameB, NameC >>
ModC_BC == << NameC, NameBC >>

Modules == { Root, ModA, ModA_BC, ModAB, ModC, ModC_B, ModC_B_C, ModC_BC }

weight == << "w", "e", "i", "g", "h", "t" >>
bias == << "b", "i", "a", "s" >>

\* module._parameters: the parameter names a module owns
ModuleParameters(m) ==
    IF m \in { Root, ModC } THEN { }
    ELSE IF m = ModA THEN { weight, bias }
    ELSE { weight }

\* a parameter of the model: << module, parameter name >>
Parameters == { p \in Modules \X { weight, bias } : p[2] \in ModuleParameters(p[1]) }

\* module._modules: the names of a module's direct children
Children(m) == { n \in { NameA, NameB, NameC, NameAB, NameBC } : Append(m, n) \in Modules }

\* the fully qualified name of a module / parameter (a key of state_dict())
ModulePath(m) == Join(m, ".")
StateDictKey(p) == IF p[1] = Root THEN p[2] ELSE ModulePath(p[1]) \o << "." >> \o p[2]

Failed == [ok |-> FALSE]

\* torch.nn.Module.get_submodule(target) called on module m: "" is m itself;
\* otherwise every "."-separated atom must name a child (AttributeError if not)
RECURSIVE WalkAtoms(_, _)
WalkAtoms(m, atoms) ==
    IF atoms = << >> THEN [ok |-> TRUE, module |-> m]
    ELSE IF Head(atoms) \in Children(m) THEN WalkAtoms(Append(m, Head(atoms)), Tail(atoms))
    ELSE Failed

get_submodule(m, target) ==
    IF target = << >> THEN [ok |-> TRUE, module |-> m]
    ELSE WalkAtoms(m, Split(target, "."))

\* torch.nn.Module.get_parameter(target) called on module m: the text after the
\* last "." names the parameter, the text before it the submodule
get_parameter(m, target) ==
    LET parts == RPartition(target, ".")
        sub == get_submodule(m, parts.head)
    IN  IF sub.ok /\ parts.tail \in ModuleParameters(sub.module)
        THEN [ok |-> TRUE, param |-> << sub.module, parts.tail >>]
        ELSE Failed

(***************************************************************************)
(* LoRAPatcherExt._resolve_lora_key                                        *)
(***************************************************************************)
\* the while loop of lines 161-167: the module reached, the key built so far and the
\* run of tokens accumulated when key_parts is used up
RECURSIVE ResolveLoop(_, _, _, _)
ResolveLoop(module, module_key, submodule_name, key_parts) ==
    IF key_parts = << >>
    THEN [module |-> module, module_key |-> module_key, submodule_name |-> submodule_name]
    ELSE LET sub == get_submodule(module, submodule_name)
         IN  IF sub.ok
             THEN ResolveLoop(sub.module, module_key \o << "." >> \o submodule_name,
                              Head(key_parts), Tail(key_parts))
             ELSE ResolveLoop(module, module_key,
                              submodule_name \o << "_" >> \o Head(key_parts), Tail(key_parts))

\* lines 155-159 and the loop: where the walk stands before the final descent
LoopEnd(model, lora_key, prefix) ==
    LET key_parts == Split(DropFirst(lora_key, Len(prefix)), "_")
    IN  ResolveLoop(model, << >>, Head(key_parts), Tail(key_parts))

\* lines 169-172: the final descent
FinalDescent(end) ==
    LET sub == get_submodule(end.module, end.submodule_name)
    IN  IF sub.ok
        THEN [ok |-> TRUE,
              module_key |-> LStrip(end.module_key \o << "." >> \o end.submodule_name, "."),
              module |-> sub.module]
        ELSE Failed

resolve_lora_key(model, lora_key, prefix) ==
    IF ~StartsWith(lora_key, prefix) THEN Failed
    ELSE FinalDescent(LoopEnd(model, lora_key, prefix))

(***************************************************************************)
(* Tensors: a shape and the elements in row-major order.                   *)
(***************************************************************************)
Tensor(shape, data) == [shape |-> shape, data |-> data]

RECURSIVE Product(_)
Product(shape) == IF shape = << >> THEN 1 ELSE Head(shape) * Product(Tail(shape))

numel(t) == Product(t.shape)

Full(shape, v) == Tensor(shape, [i \in 1..Product(shape) |-> v])

\* a reshape that accepts no shape but the tensor's own
reshape_same_shape_only(t, shape) ==
    IF shape = t.shape THEN [ok |-> TRUE, tensor |-> t] ELSE Failed

\* Tensor.reshape(shape): the same elements under another shape; a RuntimeError when
\* the element counts differ
reshape(t, shape) ==
    IF Product(shape) = numel(t) THEN [ok |-> TRUE, tensor |-> Tensor(shape, t.data)]
    ELSE Failed

\* lora_param_weight *= lora_weight * layer_scale   (all three fixed-point, n for n/4)
Scaled(t, lora_weight, layer_scale) ==
    Tensor(t.shape, [i \in 1..Len(t.data) |-> (t.data[i] * lora_weight * layer_scale) \div 16])

\* module_param += lora_param_weight.to(dtype=dtype)   (shapes already equal)
Added(t, d) == Tensor(t.shape, [i \in 1..Len(t.data) |-> t.data[i] + d.data[i]])

(***************************************************************************)
(* The model's initial weights (fixed-point, n for n/4).  a.b_c.weight is  *)
(* all zero.                                                               *)
(***************************************************************************)
WeightShape == << 1, 2 >>
BiasShape == << 2 >>

InitialParams ==
    [p \in Parameters |->
        IF p = << ModA, weight >> THEN Tensor(WeightShape, << 4, 8 >>)
        ELSE IF p = << ModA, bias >> THEN Tensor(BiasShape, << 12, -4 >>)
        ELSE IF p = << ModA_BC, weight >> THEN Full(WeightShape, 0)
        ELSE IF p = << ModAB, weight >> THEN Tensor(WeightShape, << -8, 28 >>)
        ELSE IF p = << ModC_B, weight >> THEN Tensor(WeightShape, << 20, 24 >>)
        ELSE IF p = << ModC_B_C, weight >> THEN Tensor(WeightShape, << 16, -12 >>)
        ELSE Tensor(WeightShape, << 32, 36 >>)]

\* the devices the modules' weights live on
ModuleDevice(m) == IF m = ModC_B THEN "cpu" ELSE "cuda"

(***************************************************************************)
(* LoRA models.  A layer has a key, an alpha and a rank (<< >> when        *)
(* absent, << n >> when present, alpha fixed-point) and the deltas its     *)
(* get_parameters(module) yields, in dict order.  A delta is either        *)
(* materialized on every call (the product of the layer's low-rank         *)
(* factors, a fresh tensor) or stored: the layer holds one tensor for the  *)
(* parameter and get_parameters hands out that very tensor.                *)
(***************************************************************************)
None == << >>
Some(v) == << v >>

Layer(key, alpha, rank, parameters) ==
    [key |-> key, alpha |-> alpha, rank |-> rank, parameters |-> parameters]

Delta(name, tensor) == [name |-> name, tensor |-> tensor, stored |-> FALSE]

StoredDelta(name, tensor) == [name |-> name, tensor |-> tensor, stored |-> TRUE]

\* "lora_unet_"-like prefix of the keys that belong to this model
Prefix == << "p", "_" >>

\* touches a.b_c (alpha = rank) and a (weight and bias); its first layer belongs to
\* another sub-model
LoraX ==
    << Layer(<< "q", "_", "a" >>, Some(16), Some(4), << Delta(weight, Full(WeightShape, 4)) >>),
       Layer(<< "p", "_", "a", "_", "b", "_", "c" >>, Some(16), Some(4),
             << Delta(weight, Full(WeightShape, 4)) >>),
       Layer(<< "p", "_", "a" >>, None, Some(2),
             << Delta(weight, Tensor(WeightShape, << 4, -8 >>)),
                Delta(bias, Full(BiasShape, 8)) >>) >>

\* touches a.b_c again (delta stored transposed, alpha / rank = 1/2) and c.b.c
LoraY ==
    << Layer(<< "p", "_", "a", "_", "b", "_", "c" >>, Some(8), Some(4),
             << Delta(weight, Tensor(<< 2, 1 >>, << 8, 16 >>)) >>),
       Layer(<< "p", "_", "c", "_", "b", "_", "c" >>, Some(16), Some(2),
             << Delta(weight, Full(WeightShape, 4)) >>) >>

\* its second key resolves to nothing: a has no child b, and a_b is never tried
LoraBad ==
    << Layer(<< "p", "_", "a" >>, Some(0), Some(4), << Delta(weight, Full(WeightShape, 4)) >>),
       Layer(<< "p", "_", "a", "_", "b" >>, Some(16), Some(4),
             << Delta(weight, Full(WeightShape, 4)) >>),
       Layer(<< "p", "_", "c", "_", "b" >>, Some(16), Some(4),
             << Delta(weight, Full(WeightShape, 4)) >>) >>

\* keys with empty tokens: a leading, a trailing and a doubled underscore
LoraEmpty ==
    << Layer(<< "p", "_", "_", "a", "_", "b", "_", "c" >>, Some(16), Some(4),
             << Delta(weight, Full(WeightShape, 4)) >>),
       Layer(<< "p", "_", "a" >>, Some(16), Some(4), << Delta(weight, Full(WeightShape, 4)) >>),
       Layer(<< "p", "_", "a", "_" >>, Some(16), Some(4),
             << Delta(weight, Full(WeightShape, 8)) >>),
       Layer(<< "p", "_", "c", "_", "_", "b" >>, Some(16), Some(4),
             << Delta(weight, Full(WeightShape, 8)) >>) >>

\* one layer that holds its delta as a single stored tensor; rank absent
LoraFull ==
    << Layer(<< "p", "_", "c", "_", "b", "_", "c" >>, Some(16), None,
             << StoredDelta(weight, Tensor(WeightShape, << 4, 8 >>)) >>) >>

\* its second layer adds to a.weight and then yields three elements for a.bias, which
\* has two; rank 0; the third layer is never reached
LoraShape ==
    << Layer(<< "p", "_", "c", "_", "b" >>, Some(8), Some(4),
             << Delta(weight, Tensor(<< 2, 1 >>, << 4, 8 >>)) >>),
       Layer(<< "p", "_", "a" >>, Some(8), Some(0),
             << Delta(weight, Full(WeightShape, 4)), Delta(bias, Full(<< 3 >>, 4)) >>),
       Layer(<< "p", "_", "a", "_", "b", "_", "c" >>, Some(16), Some(4),
             << Delta(weight, Full(WeightShape, 4)) >>) >>

Loras == << LoraX, LoraY, LoraBad, LoraEmpty, LoraFull, LoraShape >>

\* a (LoRA, weight) pair as the iterator yields it: an index into Loras and the weight
Pair(lora, lora_weight) == [lora |-> lora, weight |-> lora_weight]

\* the ordered LoRA specs a caller passes
LoraSpecs ==
    { << Pair(1, 2) >>,
      << Pair(2, 4) >>,
      << Pair(1, 2), Pair(2, 4) >>,
      << Pair(2, 4), Pair(3, 4), Pair(1, 2) >>,
      << Pair(4, 4) >>,
      << Pair(5, 8), Pair(5, 8) >>,
      << Pair(6, 4) >> }

\* a layer object: << index of its LoRA, position among the LoRA's layers >>
LayerIds == UNION { { << l, n >> : n \in 1..Len(Loras[l]) } : l \in 1..Len(Loras) }

(***************************************************************************)
(* LoRAPatcherExt._patch_model, one layer at a time.                       *)
(*                                                                         *)
(* The bookkeeping of a call: modified_weights is the dict of saved        *)
(* originals in insertion order (a sequence of << key, tensor >>),         *)
(* modified_cached_weights the set of touched keys found in                *)
(* cached_weights.  touched and resolved are history: the << key,          *)
(* parameter, delta as yielded >> of every addition, in order, and the     *)
(* layer keys passed to _resolve_lora_key.                                 *)
(***************************************************************************)
SavedKeys(modified_weights) == { modified_weights[i][1] : i \in 1..Len(modified_weights) }

SavedValue(modified_weights, key) ==
    modified_weights[CHOOSE i \in 1..Len(modified_weights) : modified_weights[i][1] = key][2]

\* a scale that tests the rank only: an alpha of 0 scales the delta to nothing
LayerScaleRankOnly(layer) ==
    IF layer.alpha # None /\ layer.rank # None /\ layer.rank[1] # 0
    THEN layer.alpha[1] \div layer.rank[1]
    ELSE 4

\* line 114: alpha / rank when both are truthy, else 1.0
LayerScale(layer) ==
    IF layer.alpha # None /\ layer.alpha[1] # 0 /\ layer.rank # None /\ layer.rank[1] # 0
    THEN layer.alpha[1] \div layer.rank[1]
    ELSE 4

\* a save that never looks into cached_weights
SaveOriginalIgnoringCache(st, param_key, module_param, cache) ==
    IF param_key \notin SavedKeys(st.modified_weights)
    THEN [st EXCEPT !.modified_weights = Append(@, << param_key, st.params[module_param] >>)]
    ELSE st

\* a save that puts the original into the caller's cached_weights as well
SaveOriginalIntoCache(st, param_key, module_param, cache) ==
    IF param_key \notin st.modified_cached_weights /\ param_key \notin SavedKeys(st.modified_weights)
    THEN IF param_key \in DOMAIN cache
         THEN [st EXCEPT !.modified_cached_weights = @ \cup { param_key }]
         ELSE [st EXCEPT !.modified_weights = Append(@, << param_key, st.params[module_param] >>),
                         !.cached_weights =
                             IF @ = None THEN @
                             ELSE Some(@[1] @@ (param_key :> st.params[module_param]))]
    ELSE st

\* a save without the else of line 132: a key found in cached_weights is copied too
SaveOriginalBoth(st, param_key, module_param, cache) ==
    IF param_key \notin st.modified_cached_weights /\ param_key \notin SavedKeys(st.modified_weights)
    THEN [st EXCEPT !.modified_cached_weights =
                        IF param_key \in DOMAIN cache THEN @ \cup { param_key } ELSE @,
                    !.modified_weights = Append(@, << param_key, st.params[module_param] >>)]
    ELSE st

\* lines 129-135: save the original weight, once per key
SaveOriginal(st, param_key, module_param, cache) ==
    IF param_key \notin st.modified_cached_weights /\ param_key \notin SavedKeys(st.modified_weights)
    THEN IF param_key \in DOMAIN cache
         THEN [st EXCEPT !.modified_cached_weights = @ \cup { param_key }]
         ELSE [st EXCEPT !.modified_weights = Append(@, << param_key, st.params[module_param] >>)]
    ELSE st

\* a patch that writes the scaled delta over the parameter instead of adding it
AddDeltaOverwriting(st, param_key, module_param, lora_param_weight, lora_weight, layer_scale) ==
    [st EXCEPT !.params[module_param] = Scaled(lora_param_weight, lora_weight, layer_scale),
               !.touched = Append(@, << param_key, module_param, lora_param_weight >>)]

\* a patch that adds the scaled delta to the saved original instead of the live value
AddDeltaOntoSaved(st, param_key, module_param, lora_param_weight, lora_weight, layer_scale) ==
    [st EXCEPT !.params[module_param] =
                   Added(IF param_key \in SavedKeys(st.modified_weights)
                         THEN SavedValue(st.modified_weights, param_key) ELSE @,
                         Scaled(lora_param_weight, lora_weight, layer_scale)),
               !.touched = Append(@, << param_key, module_param, lora_param_weight >>)]

\* lines 141-142: scale the delta and add it to the parameter in place
AddDelta(st, param_key, module_param, lora_param_weight, lora_weight, layer_scale) ==
    [st EXCEPT !.params[module_param] = Added(@, Scaled(lora_param_weight, lora_weight, layer_scale)),
               !.touched = Append(@, << param_key, module_param, lora_param_weight >>)]

\* layer.get_parameters(module).items(): name and tensor of every delta, in dict order;
\* source tells where a stored tensor lives (<< layer, position >>), << >> for a tensor
\* made for this call
get_parameters(tensors, id, layer) ==
    [e \in 1..Len(layer.parameters) |->
        [name |-> layer.parameters[e].name,
         tensor |-> tensors[id][e],
         source |-> IF layer.parameters[e].stored THEN << id, e >> ELSE << >>]]

\* line 141 seen from the layer: `*=` multiplies the tensor get_parameters handed out
\* in place (reshape of line 139 returns a view of the same storage), so a stored
\* tensor keeps the product; a tensor made for the call is dropped after line 142
MultipliedInPlace(st, source, lora_weight, layer_scale) ==
    IF source = << >> THEN st
    ELSE [st EXCEPT !.layer_tensors[source[1]][source[2]] = Scaled(@, lora_weight, layer_scale)]

\* lines 124-142: the loop over layer.get_parameters(module).items(); st.raised is set
\* when module.get_parameter or reshape raises, and the loop stops there
RECURSIVE PatchParameters(_, _, _, _, _, _, _)
PatchParameters(st, entries, module_key, module, lora_weight, layer_scale, cache) ==
    IF entries = << >> THEN st
    ELSE LET param_name == Head(entries).name
             lora_param_weight == Head(entries).tensor
             param_key == module_key \o << "." >> \o param_name
             found == get_parameter(module, param_name)
         IN  IF ~found.ok THEN [st EXCEPT !.raised = "AttributeError"]
             ELSE LET module_param == found.param
                      saved == SaveOriginal(st, param_key, module_param, cache)
                      shaped == IF st.params[module_param].shape # lora_param_weight.shape
                                THEN reshape(lora_param_weight, st.params[module_param].shape)
                                ELSE [ok |-> TRUE, tensor |-> lora_param_weight]
                  IN  IF ~shaped.ok THEN [saved EXCEPT !.raised = "RuntimeError"]
                      ELSE PatchParameters(
                               MultipliedInPlace(
                                   AddDelta(saved, param_key, module_param, shaped.tensor,
                                            lora_weight, layer_scale),
                                   Head(entries).source, lora_weight, layer_scale),
                               Tail(entries), module_key, module, lora_weight, layer_scale, cache)

\* layer.to(device=...), layer.to(dtype=...)
Staged(st, id, device, dtype) == [st EXCEPT !.staging[id] = [device |-> device, dtype |-> dtype]]

\* a loop body that takes back the deltas of the layer it fails in
PatchMatchingLayerRollingBack(st, id, layer, lora_weight, prefix, cache) ==
         LET found == resolve_lora_key(Root, layer.key, prefix)
             called == [st EXCEPT !.resolved = @ \cup { layer.key }]
         IN  IF ~found.ok THEN [called EXCEPT !.raised = "InvalidKey"]
             ELSE IF weight \notin ModuleParameters(found.module)
             THEN [called EXCEPT !.raised = "AttributeError"]
             ELSE LET done == PatchParameters(
                                  Staged(called, id, ModuleDevice(found.module), "float32"),
                                  get_parameters(called.layer_tensors, id, layer),
                                  found.module_key, found.module,
                                  lora_weight, LayerScale(layer), cache)
                  IN  IF done.raised # "" THEN [done EXCEPT !.params = st.params]
                      ELSE Staged(done, id, "cpu", "float32")

\* lines 107-144: a layer whose key passed the prefix test of line 96
PatchMatchingLayer(st, id, layer, lora_weight, prefix, cache) ==
         LET found == resolve_lora_key(Root, layer.key, prefix)
             called == [st EXCEPT !.resolved = @ \cup { layer.key }]
         IN  IF ~found.ok THEN [called EXCEPT !.raised = "InvalidKey"]
             ELSE IF weight \notin ModuleParameters(found.module)
             THEN [called EXCEPT !.raised = "AttributeError"]
             ELSE LET done == PatchParameters(
                                  Staged(called, id, ModuleDevice(found.module), "float32"),
                                  get_parameters(called.layer_tensors, id, layer),
                                  found.module_key, found.module,
                                  lora_weight, LayerScale(layer), cache)
                  IN  IF done.raised # "" THEN done
                      ELSE Staged(done, id, "cpu", "float32")

\* a loop body without the prefix test of lines 96-97
PatchLayerUnfiltered(st, id, layer, lora_weight, prefix, cache) ==
    PatchMatchingLayer(st, id, layer, lora_weight, prefix, cache)

\* lines 96-144: the body of the loop over lora.layers.items() for one layer
PatchLayer(st, id, layer, lora_weight, prefix, cache) ==
    IF ~StartsWith(layer.key, prefix) THEN st
    ELSE PatchMatchingLayer(st, id, layer, lora_weight, prefix, cache)

\* lines 95-144: the layers of one LoRA from position n on, until one raises
RECURSIVE PatchLora(_, _, _, _, _, _)
PatchLora(st, lora, n, lora_weight, prefix, cache) ==
    IF st.raised # "" \/ n > Len(Loras[lora]) THEN st
    ELSE PatchLora(PatchLayer(st, << lora, n >>, Loras[lora][n], lora_weight, prefix, cache),
                   lora, n + 1, lora_weight, prefix, cache)

\* lines 93-144: the (LoRA, weight) pairs in the order the iterator yields them
RECURSIVE PatchLoras(_, _, _, _)
PatchLoras(st, loras, prefix, cache) ==
    IF st.raised # "" \/ loras = << >> THEN st
    ELSE PatchLoras(PatchLora(st, Head(loras).lora, 1, Head(loras).weight, prefix, cache),
                    Tail(loras), prefix, cache)

\* _patch_model(model, prefix, loras, cached_weights) as one call, on a model whose
\* parameters are p and with layers whose tensors are tensors; lines 87-88 turn a
\* cached_weights of None into {}
patch_model(p, staged, tensors, prefix, loras, cached) ==
    PatchLoras([params |-> p, staging |-> staged, layer_tensors |-> tensors,
                cached_weights |-> cached, modified_weights |-> << >>,
                modified_cached_weights |-> { }, touched |-> << >>, resolved |-> { },
                raised |-> ""],
               loras, prefix, IF cached = None THEN << >> ELSE cached[1])

(***************************************************************************)
(* Restoration: the finally block of static_patch_model (lines 65-70).     *)
(* The keys of cached_weights are keys of the model's state dict, so the   *)
(* first loop finds every parameter; the second loop stops at the first    *)
(* key model.get_parameter does not find.                                  *)
(***************************************************************************)
RECURSIVE RestoreCached(_, _, _)
RestoreCached(p, modified_cached_weights, cache) ==
    IF modified_cached_weights = { } THEN [ok |-> TRUE, params |-> p]
    ELSE LET param_key == CHOOSE k \in modified_cached_weights : TRUE
             found == get_parameter(Root, param_key)
         IN  IF ~found.ok THEN [ok |-> FALSE, params |-> p]
             ELSE RestoreCached([p EXCEPT ![found.param] = cache[param_key]],
                                modified_cached_weights \ { param_key }, cache)

RECURSIVE RestoreSaved(_, _)
RestoreSaved(p, modified_weights) ==
    IF modified_weights = << >> THEN [ok |-> TRUE, params |-> p]
    ELSE LET found == get_parameter(Root, Head(modified_weights)[1])
         IN  IF ~found.ok THEN [ok |-> FALSE, params |-> p]
             ELSE RestoreSaved([p EXCEPT ![found.param] = Head(modified_weights)[2]],
                               Tail(modified_weights))

Restore(p, modified_cached_weights, modified_weights, cache) ==
    LET first == RestoreCached(p, modified_cached_weights, cache)
    IN  IF first.ok THEN RestoreSaved(first.params, modified_weights) ELSE first

(***************************************************************************)
(* State.                                                                  *)
(*   params          the model's parameters (the live tensors)             *)
(*   cached_weights  the cached_weights argument the caller passes to      *)
(*                   every scope it opens: None, or Some(its read-only     *)
(*                   copy of the state dict)                               *)
(*   staging         device and dtype of every LoRA layer's tensors        *)
(*   layer_tensors   the tensors get_parameters of every LoRA layer yields *)
(*                   from, by layer and position                           *)
(*   stack           the open patch scopes, innermost last                 *)
(*   last            how the scope that ended last ended: pre, at_exit and *)
(*                   post are the parameters when it was opened, when its  *)
(*                   body ended and when it was left; handed is what       *)
(*                   _patch_model gave its caller, raised the error that   *)
(*                   left it, lora and layer where its loops stood, depth  *)
(*                   how many scopes were open with it, inner whether a    *)
(*                   scope was opened inside it                            *)
(*   opened          the number of scopes opened so far                    *)
(*   probe           a key handed to _resolve_lora_key on its own          *)
(***************************************************************************)
VARIABLES params, cached_weights, staging, layer_tensors, stack, last, opened, probe

vars == << params, cached_weights, staging, layer_tensors, stack, last, opened, probe >>

\* a copy of the state dict restricted to keys
StateDictCopy(keys) ==
    [k \in keys |-> InitialParams[CHOOSE q \in Parameters : StateDictKey(q) = k]]

CachedWeightsChoices ==
    { None,
      Some(StateDictCopy({ StateDictKey(q) : q \in Parameters })),
      Some(StateDictCopy({ StateDictKey(<< ModA_BC, weight >>),
                           StateDictKey(<< ModC_B, weight >>) })) }

\* the tensors of the layers as loaded
LoadedTensors ==
    [id \in LayerIds |->
        [e \in 1..Len(Loras[id[1]][id[2]].parameters) |-> Loras[id[1]][id[2]].parameters[e].tensor]]

NoFrame ==
    [kind |-> "none", outcome |-> "none", body_raised |-> FALSE, loras |-> << >>,
     cached |-> FALSE, pre |-> InitialParams, post |-> InitialParams,
     modified_weights |-> << >>, modified_cached_weights |-> { }, touched |-> << >>,
     resolved |-> { }, yielded |-> FALSE, at_exit |-> InitialParams,
     pre_tensors |-> LoadedTensors, depth |-> 0, lora |-> 1, layer |-> 1,
     raised |-> "", handed |-> None, inner |-> FALSE]

Idle == [state |-> "idle", key |-> << >>, result |-> Failed]

Init ==
    /\ params = InitialParams
    /\ cached_weights \in CachedWeightsChoices
    /\ staging = [id \in LayerIds |-> [device |-> "cpu", dtype |-> "float16"]]
    /\ layer_tensors = LoadedTensors
    /\ stack = << >>
    /\ last = NoFrame
    /\ opened = 0
    /\ probe = Idle

Top == stack[Len(stack)]

\* the cached_weights _patch_model works with: lines 87-88 turn None into {}
Cache(frame) == IF frame.cached THEN cached_weights[1] ELSE << >>

\* a finished scope, as recorded in last
Ended(frame, outcome, body_raised, post, raised) ==
    [kind |-> frame.kind, outcome |-> outcome, body_raised |-> body_raised,
     loras |-> frame.loras, cached |-> frame.cached, pre |-> frame.pre, post |-> post,
     modified_weights |-> frame.modified_weights,
     modified_cached_weights |-> frame.modified_cached_weights,
     touched |-> frame.touched, resolved |-> frame.resolved,
     yielded |-> frame.pc = "scope",
     at_exit |-> params,
     pre_tensors |-> frame.pre_tensors, depth |-> Len(stack),
     lora |-> frame.lora, layer |-> frame.layer,
     raised |-> raised, handed |-> frame.handed, inner |-> frame.inner]

\* static_patch_model(model, prefix, loras, cached_weights) or
\* patch_unet(unet, cached_weights) is entered: _patch_model starts (lines 87-91)
Open(kind, loras) ==
    /\ opened < MaxSessions
    /\ Len(stack) < MaxDepth
    /\ IF stack = << >> THEN TRUE ELSE Top.pc = "scope"
    /\ stack' = Append([n \in 1..Len(stack) |->
                            IF n = Len(stack) THEN [stack[n] EXCEPT !.inner = TRUE] ELSE stack[n]],
           [kind |-> kind, prefix |-> Prefix, loras |-> loras,
            cached |-> cached_weights # None,
            lora |-> 1, layer |-> 1, modified_weights |-> << >>,
            modified_cached_weights |-> { }, touched |-> << >>, resolved |-> { },
            pre |-> params, returned |-> params, pc |-> "patching",
            pre_tensors |-> layer_tensors, handed |-> None, inner |-> FALSE])
    /\ opened' = opened + 1
    /\ UNCHANGED << params, cached_weights, staging, layer_tensors, last, probe >>

\* the state _patch_model works on when it reaches the next layer
Working(frame) ==
    [params |-> params, staging |-> staging, layer_tensors |-> layer_tensors,
     cached_weights |-> cached_weights, modified_weights |-> frame.modified_weights,
     modified_cached_weights |-> frame.modified_cached_weights, touched |-> frame.touched,
     resolved |-> frame.resolved, raised |-> ""]

\* the next layer of the loops of lines 93 and 95, patched
NextLayerPatched(frame) ==
    LET pair == frame.loras[frame.lora]
    IN  PatchLayer(Working(frame), << pair.lora, frame.layer >>, Loras[pair.lora][frame.layer],
                   pair.weight, frame.prefix, Cache(frame))

\* the frame after the layer: the bookkeeping, and the loops moved on
Advanced(frame, st) ==
    LET more == frame.layer < Len(Loras[frame.loras[frame.lora].lora])
    IN  [frame EXCEPT !.modified_weights = st.modified_weights,
                      !.modified_cached_weights = st.modified_cached_weights,
                      !.touched = st.touched,
                      !.resolved = st.resolved,
                      !.lora = IF more THEN @ ELSE @ + 1,
                      !.layer = IF more THEN @ + 1 ELSE 1]

\* _patch_model processes one layer without an error
PatchNextLayer ==
    /\ stack # << >>
    /\ Top.pc = "patching"
    /\ Top.lora <= Len(Top.loras)
    /\ LET st == NextLayerPatched(Top)
       IN  /\ st.raised = ""
           /\ params' = st.params
           /\ staging' = st.staging
           /\ layer_tensors' = st.layer_tensors
           /\ cached_weights' = st.cached_weights
           /\ stack' = [stack EXCEPT ![Len(stack)] = Advanced(Top, st)]
    /\ UNCHANGED << last, opened, probe >>

\* an error is raised while a layer is processed: it leaves _patch_model, and
\* static_patch_model / patch_unet with it (line 56 is outside the try block);
\* modified_weights and modified_cached_weights are locals of the call and are gone:
\* the frame's handed stays None (last keeps them as history only)
PatchRaises ==
    /\ stack # << >>
    /\ Top.pc = "patching"
    /\ Top.lora <= Len(Top.loras)
    /\ LET st == NextLayerPatched(Top)
       IN  /\ st.raised # ""
           /\ params' = st.params
           /\ staging' = st.staging
           /\ layer_tensors' = st.layer_tensors
           /\ cached_weights' = st.cached_weights
           /\ last' = Ended([Top EXCEPT !.modified_weights = st.modified_weights,
                                        !.modified_cached_weights = st.modified_cached_weights,
                                        !.touched = st.touched,
                                        !.resolved = st.resolved],
                            "patch_raised", FALSE, st.params, st.raised)
           /\ stack' = SubSeq(stack, 1, Len(stack) - 1)
    /\ UNCHANGED << opened, probe >>

\* line 146: _patch_model returns its bookkeeping and the scope body starts
PatchReturns ==
    /\ stack # << >>
    /\ Top.pc = "patching"
    /\ Top.lora > Len(Top.loras)
    /\ stack' = [stack EXCEPT ![Len(stack)].pc = "scope",
                              ![Len(stack)].returned = params,
                              ![Len(stack)].handed =
                                  Some(<< Top.modified_cached_weights, Top.modified_weights >>)]
    /\ UNCHANGED << params, cached_weights, staging, layer_tensors, last, opened, probe >>

\* a finally block without the loop of lines 67-68
StaticExitSavedOnly(frame) == RestoreSaved(params, frame.modified_weights)

\* the model's parameters once the scope of static_patch_model has ended (lines 65-70)
StaticExit(frame) ==
    Restore(params, frame.modified_cached_weights, frame.modified_weights, Cache(frame))

\* a patch_unet that restores like static_patch_model
UnetExitRestoring(frame) == StaticExit(frame)

\* the model's parameters once the scope of patch_unet has ended (line 40: the
\* generator has yielded the bookkeeping and runs no code after the yield)
UnetExit(frame) == [ok |-> TRUE, params |-> params]

\* the body of the innermost scope ends, normally or by raising
ScopeExit(body_raises) ==
    /\ stack # << >>
    /\ Top.pc = "scope"
    /\ LET exit == IF Top.kind = "static" THEN StaticExit(Top) ELSE UnetExit(Top)
       IN  /\ params' = exit.params
           /\ last' = Ended(Top, IF exit.ok THEN "exited" ELSE "restore_raised",
                            body_raises, exit.params,
                            IF exit.ok THEN "" ELSE "AttributeError")
    /\ stack' = SubSeq(stack, 1, Len(stack) - 1)
    /\ UNCHANGED << cached_weights, staging, layer_tensors, opened, probe >>

Next ==
    \/ \E kind \in { "static", "unet" }, loras \in LoraSpecs : Open(kind, loras)
    \/ PatchNextLayer
    \/ PatchRaises
    \/ PatchReturns
    \/ \E body_raises \in BOOLEAN : ScopeExit(body_raises)

Spec == Init /\ [][Next]_vars

(***************************************************************************)
(* _resolve_lora_key on its own, over every key of up to MaxTokens tokens. *)
(***************************************************************************)
MaxTokens == 3

Tokens == { << >>, << "a" >>, << "b" >>, << "c" >> }

TokenSeqs == UNION { [1..n -> Tokens] : n \in 1..MaxTokens }

ProbeKeys == { pre \o Join(toks, "_") : pre \in { Prefix, << "q", "_" >> }, toks \in TokenSeqs }

PickKey(key) ==
    /\ probe.state # "ready"
    /\ probe' = [state |-> "ready", key |-> key, result |-> Failed]
    /\ UNCHANGED << params, cached_weights, staging, layer_tensors, stack, last, opened >>

Resolve ==
    /\ probe.state = "ready"
    /\ probe' = [probe EXCEPT !.state = "done",
                              !.result = resolve_lora_key(Root, probe.key, Prefix)]
    /\ UNCHANGED << params, cached_weights, staging, layer_tensors, stack, last, opened >>

ResolveNext == (\E key \in ProbeKeys : PickKey(key)) \/ Resolve

ResolveSpec == Init /\ [][ResolveNext]_vars

(***************************************************************************)
(* Notions the properties share.                                           *)
(***************************************************************************)
\* the parameters a finished or open scope's _patch_model added a delta to
TouchedParameters(session) == { session.touched[i][2] : i \in 1..Len(session.touched) }

TouchedKeys(session) == { session.touched[i][1] : i \in 1..Len(session.touched) }

\* every entry of cached_weights equals the model's value when the scope was opened
\* (vacuous when the scope was given no cached_weights)
CacheFresh(session) ==
    session.cached =>
        \A q \in Parameters :
            StateDictKey(q) \in DOMAIN cached_weights[1] =>
                cached_weights[1][StateDictKey(q)] = session.pre[q]

\* the scope ran _patch_model to its end and then the restoration of lines 65-70
RestorationRan == last.kind = "static" /\ last.yielded

\* no layer key of the spec has an empty token after the prefix
NoEmptyToken(key) ==
    StartsWith(key, Prefix) => \A i \in 1..Len(Split(DropFirst(key, Len(Prefix)), "_")) :
                                   Split(DropFirst(key, Len(Prefix)), "_")[i] # << >>

WellFormedKeys(loras) ==
    \A n \in 1..Len(loras) : \A l \in 1..Len(Loras[loras[n].lora]) :
        NoEmptyToken(Loras[loras[n].lora][l].key)

(***************************************************************************)
(* C1  Round trip: when no cached_weights is given, or every entry of it   *)
(* equals the model's value when patching begins, _patch_model followed by *)
(* one restoration pass leaves every touched parameter equal to its value  *)
(* before patching, for any LoRA spec.                                     *)
(***************************************************************************)
C1_RoundTrip ==
    (RestorationRan /\ CacheFresh(last)) =>
        \A q \in TouchedParameters(last) : last.post[q] = last.pre[q]

\* the same, for specs whose keys have no empty token: this much the code does
C1_RoundTripWellFormed ==
    (RestorationRan /\ CacheFresh(last) /\ WellFormedKeys(last.loras)) =>
        /\ last.outcome = "exited"
        /\ \A q \in TouchedParameters(last) : last.post[q] = last.pre[q]

(***************************************************************************)
(* C2  static_patch_model restores every touched parameter to its          *)
(* pre-patch value when the scope ends, on every exit path: a normal end   *)
(* of the body, an error out of the body, an error out of the patching.    *)
(***************************************************************************)
C2_RestoredOnEveryExit ==
    (last.kind = "static" /\ CacheFresh(last) /\ WellFormedKeys(last.loras)) =>
        \A q \in TouchedParameters(last) : last.post[q] = last.pre[q]

\* the exit paths through the scope body do restore
C2_RestoredOnBodyExit ==
    (last.kind = "static" /\ last.yielded /\ CacheFresh(last) /\ WellFormedKeys(last.loras)) =>
        \A q \in TouchedParameters(last) : last.post[q] = last.pre[q]

(***************************************************************************)
(* C3  patch_unet.  As claimed: when the scope of patch_unet exits, every  *)
(* parameter the patch touched is back at its pre-patch value.             *)
(***************************************************************************)
C3_UnetScopeRestores ==
    (last.kind = "unet" /\ last.yielded) =>
        \A q \in TouchedParameters(last) : last.post[q] = last.pre[q]

\* C3 as amended: the exit of the patch_unet scope changes no parameter (the deltas
\* stay applied); the scope has only handed its bookkeeping to the caller
C3_UnetExitChangesNothing ==
    (last.kind = "unet" /\ last.yielded) => last.post = last.at_exit

C3_Witness ==
    /\ last.kind = "unet"
    /\ last.yielded
    /\ last.post = last.at_exit
    /\ \E q \in TouchedParameters(last) : last.post[q] # last.pre[q]

(***************************************************************************)
(* C4  Ordered additive application: _patch_model applies the pairs in the *)
(* order the iterator yields them, and when it returns every parameter     *)
(* holds its original value plus the sum, over every (LoRA, matching       *)
(* layer) that contributes to it, of weight * layer_scale * delta.         *)
(***************************************************************************)
RECURSIVE SumSeq(_)
SumSeq(ns) == IF ns = << >> THEN 0 ELSE Head(ns) + SumSeq(Tail(ns))

RECURSIVE Flatten(_)
Flatten(ss) == IF ss = << >> THEN << >> ELSE Head(ss) \o Flatten(Tail(ss))

\* what one layer contributes under one pair, in the order of its get_parameters: the
\* parameter, and the factor weight * layer_scale its delta is to be multiplied by
LayerContributions(pair, layer) ==
    IF ~StartsWith(layer.key, Prefix) THEN << >>
    ELSE LET module == resolve_lora_key(Root, layer.key, Prefix).module
         IN  [e \in 1..Len(layer.parameters) |->
                 [param |-> << module, layer.parameters[e].name >>,
                  factor |-> pair.weight * LayerScale(layer),
                  shape |-> layer.parameters[e].tensor.shape]]

\* the contributions of a whole spec, in the order the iterator yields the pairs
Contributions(loras) ==
    Flatten([n \in 1..Len(loras) |->
                Flatten([l \in 1..Len(Loras[loras[n].lora]) |->
                            LayerContributions(loras[n], Loras[loras[n].lora][l])])])

\* original value plus the sum of factor * delta over the contributions to q, delta
\* being the tensor the layer yielded for that contribution
ExpectedValue(pre, contributions, deltas, q, i) ==
    pre[q].data[i] + SumSeq([c \in 1..Len(contributions) |->
                                IF contributions[c].param = q
                                THEN (contributions[c].factor * deltas[c].data[i]) \div 16
                                ELSE 0])

\* _patch_model of the innermost scope has processed every pair and is about to return
PatchComplete == stack # << >> /\ Top.pc = "patching" /\ Top.lora > Len(Top.loras)

NestedPatched(n) ==
    /\ n + 1 <= Len(stack)
    /\ stack[n].pc = "scope"
    /\ stack[n + 1].pc = "scope"
    /\ stack[n + 1].pre = stack[n].returned
    /\ stack[n + 1].pre_tensors =
           patch_model(stack[n].pre, staging, stack[n].pre_tensors, Prefix,
                       stack[n].loras, None).layer_tensors

OneSession(n) ==
    patch_model(stack[n].pre, staging, stack[n].pre_tensors, Prefix,
                stack[n].loras \o stack[n + 1].loras, None)

C5_AdditiveAcrossSessions ==
    \A n \in 1..Len(stack) :
        NestedPatched(n) =>
            /\ OneSession(n).raised = ""
            /\ OneSession(n).params = stack[n + 1].returned

C5_Witness ==
    /\ NestedPatched(1)
    /\ stack[1].loras = << Pair(1, 2) >>
    /\ stack[2].loras = << Pair(2, 4) >>
    /\ params = OneSession(1).params
    /\ params[<< ModA_BC, weight >>] = Tensor(WeightShape, << 6, 10 >>)

(***************************************************************************)
(* C6  Idempotent caching: within one _patch_model session a key's         *)
(* original value is saved at most once, before the first delta is added   *)
(* to that key, and later touches never overwrite it: modified_weights[k]  *)
(* is the value k had before its first touch.                              *)
(***************************************************************************)
\* the parameter a key of the session's bookkeeping was used for
ParameterOf(session, key) ==
    session.touched[CHOOSE i \in 1..Len(session.touched) : session.touched[i][1] = key][2]

SavedOnce(session) ==
    Cardinality(SavedKeys(session.modified_weights)) = Len(session.modified_weights)

\* from session before a step to session after it: what was saved stays as it is, and
\* a key saved in this step had no delta added under it yet and is saved with the
\* value its parameter had before the step
SavedBeforeFirstTouch(before, after, live) ==
    \A k \in SavedKeys(after.modified_weights) :
        IF k \in SavedKeys(before.modified_weights)
        THEN SavedValue(after.modified_weights, k) = SavedValue(before.modified_weights, k)
        ELSE /\ k \notin TouchedKeys(before)
             /\ k \in TouchedKeys(after) =>
                    SavedValue(after.modified_weights, k) = live[ParameterOf(after, k)]

C6_SavedOnceStep ==
    /\ \A n \in 1..Len(stack') : SavedOnce(stack'[n])
    /\ \A n \in 1..Len(stack) :
           IF n <= Len(stack') THEN SavedBeforeFirstTouch(stack[n], stack'[n], params)
           ELSE SavedBeforeFirstTouch(stack[n], last', params)

\* the saved value is the value the parameter had when the session began, never a
\* value some delta of the session has already been added to
C6_SavedIsOriginal ==
    \A n \in 1..Len(stack) :
        \A k \in SavedKeys(stack[n].modified_weights) \cap TouchedKeys(stack[n]) :
            SavedValue(stack[n].modified_weights, k) = stack[n].pre[ParameterOf(stack[n], k)]

\* C6 as claimed: saved at most once, before the key's first delta, never overwritten,
\* and so the saved value is the original one, never an intermediate patched value
C6_IdempotentCaching == [][C6_SavedOnceStep]_vars /\ []C6_SavedIsOriginal

\* where no key has an empty token two keys never name one parameter, and the saved
\* value is the original one: this much the code does
C6_SavedIsOriginalWellFormed ==
    \A n \in 1..Len(stack) :
        WellFormedKeys(stack[n].loras) =>
            \A k \in SavedKeys(stack[n].modified_weights) \cap TouchedKeys(stack[n]) :
                SavedValue(stack[n].modified_weights, k)
                    = stack[n].pre[ParameterOf(stack[n], k)]

C6_IdempotentCachingWellFormed == [][C6_SavedOnceStep]_vars /\ []C6_SavedIsOriginalWellFormed

(***************************************************************************)
(* C7  Cache precedence: a touched key that is present in the supplied     *)
(* cached_weights is recorded in modified_cached_weights and never stored  *)
(* in modified_weights, and restoration writes cached_weights[key] back    *)
(* into the model.                                                         *)
(***************************************************************************)
CachedKeysNotSaved(session, cache) ==
    \A k \in TouchedKeys(session) \cup SavedKeys(session.modified_weights) :
        k \in DOMAIN cache =>
            /\ k \in session.modified_cached_weights
            /\ k \notin SavedKeys(session.modified_weights)

C7_CachePrecedence ==
    /\ \A n \in 1..Len(stack) : CachedKeysNotSaved(stack[n], Cache(stack[n]))
    /\ CachedKeysNotSaved(last, Cache(last))
    /\ RestorationRan =>
           \A k \in last.modified_cached_weights :
               /\ get_parameter(Root, k).ok
               /\ last.post[get_parameter(Root, k).param] = cached_weights[1][k]

\* a restoration wrote a cached value that differs from the value the parameter had
\* when the session began: it came from cached_weights, not from a copy of the session
C7_Witness ==
    /\ RestorationRan
    /\ last.modified_weights # << >>
    /\ \E k \in last.modified_cached_weights :
           /\ k \in TouchedKeys(last)
           /\ last.post[get_parameter(Root, k).param] = cached_weights[1][k]
           /\ cached_weights[1][k] # last.pre[get_parameter(Root, k).param]

(***************************************************************************)
(* C8  Prefix filtering: a layer whose key does not start with prefix is   *)
(* skipped silently: it is never passed to _resolve_lora_key, raises no    *)
(* error, changes no parameter and adds nothing to modified_weights or     *)
(* modified_cached_weights.                                                *)
(***************************************************************************)
\* the layer _patch_model of the innermost scope is about to process
AtLayer == stack # << >> /\ Top.pc = "patching" /\ Top.lora <= Len(Top.loras)

CurrentLayer == Loras[Top.loras[Top.lora].lora][Top.layer]

C8_SkipStep ==
    (AtLayer /\ ~StartsWith(CurrentLayer.key, Top.prefix) /\ vars' # vars) =>
        /\ Len(stack') = Len(stack)
        /\ params' = params
        /\ staging' = staging
        /\ stack'[Len(stack)].modified_weights = Top.modified_weights
        /\ stack'[Len(stack)].modified_cached_weights = Top.modified_cached_weights
        /\ stack'[Len(stack)].touched = Top.touched
        /\ stack'[Len(stack)].resolved = Top.resolved
        /\ CurrentLayer.key \notin stack'[Len(stack)].resolved
        /\ stack'[Len(stack)].pc = "patching"

\* C8: every step taken at a layer whose key does not start with prefix is a silent skip
C8_PrefixFiltering == [][C8_SkipStep]_vars

\* the first layer of LoraX ("q_a") has been skipped: nothing resolved, nothing changed
C8_Witness ==
    /\ stack # << >>
    /\ Top.pc = "patching"
    /\ Top.loras # << >>
    /\ Top.loras[1].lora = 1
    /\ Top.lora = 1
    /\ Top.layer = 2
    /\ ~StartsWith(Loras[1][1].key, Top.prefix)
    /\ Top.resolved = { }
    /\ params = Top.pre

(***************************************************************************)
(* C9  Greedy shortest-first key resolution: after the prefix, the tokens  *)
(* are walked from the root; at each level the walk descends into the      *)
(* shortest run of consecutive tokens, joined by "_", that names a direct  *)
(* child of the current module, and finally into the last accumulated run; *)
(* the result is the dot-joined path of the runs.  No backtracking.        *)
(***************************************************************************)
\* the lengths of the runs toks[1..n] that name a child of m and leave a token over
NamingRuns(m, toks) ==
    { n \in 1..(Len(toks) - 1) : Join(SubSeq(toks, 1, n), "_") \in Children(m) }

Least(ns) == CHOOSE n \in ns : \A o \in ns : n <= o

\* the runs the policy descends into, or << "?" >> in front when the last run names
\* no child
RECURSIVE ShortestFirstRuns(_, _)
ShortestFirstRuns(m, toks) ==
    IF NamingRuns(m, toks) = { }
    THEN IF Join(toks, "_") \in Children(m) THEN << Join(toks, "_") >> ELSE << << "?" >> >>
    ELSE LET run == Join(SubSeq(toks, 1, Least(NamingRuns(m, toks))), "_")
         IN  << run >> \o ShortestFirstRuns(Append(m, run),
                                            SubSeq(toks, Least(NamingRuns(m, toks)) + 1, Len(toks)))

ShortestFirst(key) ==
    LET runs == ShortestFirstRuns(Root, Split(DropFirst(key, Len(Prefix)), "_"))
    IN  IF runs[Len(runs)] = << "?" >> THEN Failed
        ELSE [ok |-> TRUE, module_key |-> Join(runs, "."), module |-> runs]

Resolved == probe.state = "done"

C9_ShortestFirst ==
    (Resolved /\ StartsWith(probe.key, Prefix)) => probe.result = ShortestFirst(probe.key)

\* the policy as the code has it, on keys whose tokens are all non-empty
C9_ShortestFirstWellFormed ==
    (Resolved /\ StartsWith(probe.key, Prefix) /\ NoEmptyToken(probe.key)) =>
        probe.result = ShortestFirst(probe.key)

(***************************************************************************)
(* C10  Resolution errors: _resolve_lora_key fails, returning no module,   *)
(* when the key does not start with prefix, and when after all tokens are  *)
(* consumed the final accumulated token names no direct child of the       *)
(* module reached; resolution never modifies the model.                    *)
(***************************************************************************)
FinalTokenNamesNoChild(key) ==
    LoopEnd(Root, key, Prefix).submodule_name \notin Children(LoopEnd(Root, key, Prefix).module)

C10_ResolutionErrors ==
    Resolved =>
        /\ ~StartsWith(probe.key, Prefix) => ~probe.result.ok
        /\ (StartsWith(probe.key, Prefix) /\ FinalTokenNamesNoChild(probe.key)) => ~probe.result.ok
        /\ params = InitialParams

\* the errors the code does raise: a wrong prefix, and a non-empty final token that
\* names no child
C10_ResolutionErrorsNonEmptyFinal ==
    Resolved =>
        /\ ~StartsWith(probe.key, Prefix) => ~probe.result.ok
        /\ (/\ StartsWith(probe.key, Prefix)
            /\ FinalTokenNamesNoChild(probe.key)
            /\ LoopEnd(Root, probe.key, Prefix).submodule_name # << >>) => ~probe.result.ok
        /\ params = InitialParams

(***************************************************************************)
(* C11  Recoverability after a mid-patch failure: when _patch_model fails  *)
(* part-way through a spec, the modified_cached_weights and                *)
(* modified_weights accumulated up to the failure are available to the     *)
(* caller, and restoration with them returns every parameter mutated       *)
(* before the failure to its pre-patch value.                              *)
(***************************************************************************)
PatchFailed == last.outcome = "patch_raised"

C11_RecoverableAfterFailure ==
    (PatchFailed /\ CacheFresh(last) /\ WellFormedKeys(last.loras)) =>
        /\ last.handed # None
        /\ \A q \in TouchedParameters(last) :
               Restore(last.post, last.handed[1][1], last.handed[1][2], Cache(last)).params[q]
                   = last.pre[q]

\* the locals of the failed call would have restored the model, had the caller
\* received them
C11_LocalsWouldRestore ==
    (PatchFailed /\ CacheFresh(last) /\ WellFormedKeys(last.loras)) =>
        \A q \in TouchedParameters(last) :
            Restore(last.post, last.modified_cached_weights, last.modified_weights,
                    Cache(last)).params[q] = last.pre[q]

(***************************************************************************)
(* C12  No partial rollback, first failure aborts: when a layer raises     *)
(* during _patch_model the error propagates at once, no later layer and no *)
(* later pair is processed, and every delta added before the failure stays *)
(* applied to the model.                                                   *)
(***************************************************************************)
\* the contributions of the layers before layer `layer` of pair `lora`
ContributionsBefore(loras, lora, layer) ==
    Contributions(SubSeq(loras, 1, lora - 1))
        \o Flatten([l \in 1..(layer - 1) |->
                       LayerContributions(loras[lora], Loras[loras[lora].lora][l])])

\* the first n contributions of a session that stood at layer `layer` of pair `lora`
ContributionsMade(loras, lora, layer, n) ==
    LET before == ContributionsBefore(loras, lora, layer)
    IN  IF n <= Len(before) THEN SubSeq(before, 1, n)
        ELSE before \o SubSeq(LayerContributions(loras[lora], Loras[loras[lora].lora][layer]),
                              1, n - Len(before))

\* the keys of the layers from the first one up to layer `layer` of pair `lora`
KeysUpTo(loras, lora, layer) ==
    UNION { { Loras[loras[n].lora][l].key : l \in 1..Len(Loras[loras[n].lora]) } :
              n \in 1..(lora - 1) }
        \cup { Loras[loras[lora].lora][l].key : l \in 1..layer }

C12_FirstFailureAborts ==
    PatchFailed =>
        LET before == ContributionsBefore(last.loras, last.lora, last.layer)
            n == Len(last.touched)
            made == ContributionsMade(last.loras, last.lora, last.layer, n)
            deltas == [k \in 1..n |-> last.touched[k][3]]
        IN  /\ n >= Len(before)
            /\ n - Len(before) <= Len(Loras[last.loras[last.lora].lora][last.layer].parameters)
            /\ [k \in 1..n |-> last.touched[k][2]] = [c \in 1..n |-> made[c].param]
            /\ \A q \in Parameters : \A i \in 1..Len(last.post[q].data) :
                   last.post[q].data[i] = ExpectedValue(last.pre, made, deltas, q, i)
            /\ last.resolved \subseteq KeysUpTo(last.loras, last.lora, last.layer)

\* LoraShape has failed in its second layer: the deltas to c.b.weight and a.weight stay,
\* and the third layer (a.b_c.weight) was never processed
C12_Witness ==
    /\ PatchFailed
    /\ last.loras = << Pair(6, 4) >>
    /\ last.layer = 2
    /\ Len(last.touched) = 2
    /\ last.post[<< ModC_B, weight >>] # last.pre[<< ModC_B, weight >>]
    /\ last.post[<< ModA, weight >>] # last.pre[<< ModA, weight >>]
    /\ last.post[<< ModA_BC, weight >>] = last.pre[<< ModA_BC, weight >>]
    /\ Loras[6][3].key \notin last.resolved

(***************************************************************************)
(* C13  Shape reconciliation: a delta whose shape differs from the target  *)
(* parameter's is reshaped silently and applied whenever the element       *)
(* counts are equal, and fails with a shape error, adding nothing to that  *)
(* parameter, whenever the element counts differ.                          *)
(***************************************************************************)
\* the sessions there are: the open ones and the one that ended last
Sessions == { stack[n] : n \in 1..Len(stack) } \cup { last }

\* the additions of a session so far, as the spec lists them
Made(session) ==
    ContributionsMade(session.loras, session.lora, session.layer, Len(session.touched))

\* the delta the failed session stopped at: the one after its last addition
FailedAt ==
    LET layer == Loras[last.loras[last.lora].lora][last.layer]
        e == Len(last.touched)
                 - Len(ContributionsBefore(last.loras, last.lora, last.layer)) + 1
    IN  [param |-> << resolve_lora_key(Root, layer.key, Prefix).module, layer.parameters[e].name >>,
         shape |-> layer.parameters[e].tensor.shape]

C13_ShapeReconciliation ==
    /\ \A session \in Sessions :
           \* every delta up to here was applied, whatever its shape, and each had as many
           \* elements as its parameter and was added in the parameter's shape
           /\ [k \in 1..Len(session.touched) |-> session.touched[k][2]]
                  = [c \in 1..Len(Made(session)) |-> Made(session)[c].param]
           /\ \A k \in 1..Len(session.touched) :
                  /\ Product(Made(session)[k].shape) = numel(session.pre[Made(session)[k].param])
                  /\ session.touched[k][3].shape = session.pre[Made(session)[k].param].shape
    /\ (PatchFailed /\ last.raised = "RuntimeError") =>
           \* the shape error comes from a delta with another element count, and that
           \* parameter holds what the additions before it made of it
           /\ Product(FailedAt.shape) # numel(last.pre[FailedAt.param])
           /\ \A i \in 1..Len(last.post[FailedAt.param].data) :
                  last.post[FailedAt.param].data[i]
                      = ExpectedValue(last.pre, Made(last),
                                      [k \in 1..Len(last.touched) |-> last.touched[k][3]],
                                      FailedAt.param, i)

\* LoraShape: its delta of shape [2, 1] was added to c.b.weight of shape [1, 2], then its
\* three elements for a.bias raised and a.bias is as before
C13_Witness ==
    /\ PatchFailed
    /\ last.raised = "RuntimeError"
    /\ last.loras = << Pair(6, 4) >>
    /\ Made(last)[1].param = << ModC_B, weight >>
    /\ Made(last)[1].shape = << 2, 1 >>
    /\ last.post[<< ModC_B, weight >>] # last.pre[<< ModC_B, weight >>]
    /\ FailedAt.param = << ModA, bias >>
    /\ last.post[<< ModA, bias >>] = last.pre[<< ModA, bias >>]

(***************************************************************************)
(* C14  The externally supplied cached_weights map is never mutated: after *)
(* any sequence of _patch_model calls and restorations (also calls with    *)
(* cached_weights = None) it has the same keys and the same values as      *)
(* before.                                                                 *)
(***************************************************************************)
C14_CacheNeverMutated == [][cached_weights' = cached_weights]_vars

\* a session given a cached_weights that holds only some keys has patched keys inside
\* and outside of it and has been restored; the map is the copy the caller made
C14_Witness ==
    /\ RestorationRan
    /\ last.cached
    /\ last.modified_cached_weights # { }
    /\ last.modified_weights # << >>
    /\ cached_weights = Some(StateDictCopy({ StateDictKey(<< ModA_BC, weight >>),
                                             StateDictKey(<< ModC_B, weight >>) }))

(***************************************************************************)
(* C15  Layer scale: the factor multiplied into a layer's delta is         *)
(* lora_weight * layer_scale, where layer_scale is alpha / rank when alpha *)
(* and rank are both present and non-zero, and 1.0 in every other case.    *)
(***************************************************************************)
Present(v) == v # None

\* the scale as claimed (fixed-point, 4 for 1.0)
ClaimedScale(layer) ==
    IF Present(layer.alpha) /\ Present(layer.rank)
    THEN IF layer.alpha[1] # 0 /\ layer.rank[1] # 0 THEN layer.alpha[1] \div layer.rank[1] ELSE 4
    ELSE 4

\* the session the innermost scope has become by the step
Stepped == IF Len(stack') = Len(stack) THEN stack'[Len(stack)] ELSE last'

\* what the step added to element i of parameter q, by the claimed factor
ClaimedAddition(q, i) ==
    SumSeq([k \in 1..(Len(Stepped.touched) - Len(Top.touched)) |->
               IF Stepped.touched[Len(Top.touched) + k][2] = q
               THEN (Top.loras[Top.lora].weight * ClaimedScale(CurrentLayer)
                         * Stepped.touched[Len(Top.touched) + k][3].data[i]) \div 16
               ELSE 0])

C15_ScaleStep ==
    (AtLayer /\ vars' # vars) =>
        \A q \in Parameters : \A i \in 1..Len(params[q].data) :
            params'[q].data[i] = params[q].data[i] + ClaimedAddition(q, i)

\* C15: every step of _patch_model adds the layer's deltas multiplied by
\* lora_weight * layer_scale, layer_scale as claimed
C15_LayerScale == [][C15_ScaleStep]_vars

\* LoraShape at weight 1.0: alpha / rank = 2.0 / 4 halves the delta (1, 2) added to
\* c.b.weight, and rank = 0 leaves the delta 1 added to a.weight as it is
C15_Witness ==
    /\ PatchFailed
    /\ last.loras = << Pair(6, 4) >>
    /\ last.post[<< ModC_B, weight >>]
           = Added(last.pre[<< ModC_B, weight >>], Tensor(WeightShape, << 2, 4 >>))
    /\ last.post[<< ModA, weight >>]
           = Added(last.pre[<< ModA, weight >>], Full(WeightShape, 4))

(***************************************************************************)
(* C16  The patcher leaves a layer's contents unchanged apart from device  *)
(* and dtype staging: the deltas a layer yields are the same before and    *)
(* after _patch_model has used it, so a second application of the same     *)
(* layer object contributes the same weight * layer_scale * delta as the   *)
(* first.                                                                  *)
(***************************************************************************)
C16_LayerUnchanged == layer_tensors = LoadedTensors

\* the layers that make their delta anew on every call stay as loaded: only a tensor
\* the layer itself holds is reached by the in-place multiplication
C16_MaterializedUnchanged ==
    \A id \in LayerIds : \A e \in 1..Len(layer_tensors[id]) :
        ~Loras[id[1]][id[2]].parameters[e].stored => layer_tensors[id][e] = LoadedTensors[id][e]

(***************************************************************************)
(* C17  Staging release: once _patch_model is done with a layer it had     *)
(* staged onto the target device, the layer's tensors are back on the CPU  *)
(* device, when the layer was processed successfully and also when an      *)
(* error was raised while processing it.                                   *)
(***************************************************************************)
CurrentId == << Top.loras[Top.lora].lora, Top.layer >>

\* the step at the current layer reaches lines 119-120: the key has the prefix and
\* resolves, and the module has a weight to take the device from
StagesCurrentLayer ==
    /\ AtLayer
    /\ StartsWith(CurrentLayer.key, Top.prefix)
    /\ resolve_lora_key(Root, CurrentLayer.key, Top.prefix).ok
    /\ weight \in ModuleParameters(resolve_lora_key(Root, CurrentLayer.key, Top.prefix).module)

C17_ReleasedStep ==
    (StagesCurrentLayer /\ vars' # vars) => staging'[CurrentId].device = "cpu"

\* C17 as claimed: after the step that staged a layer, whether it ended in success or
\* in an error, the layer is on the CPU device
C17_StagingReleased == [][C17_ReleasedStep]_vars

\* what the code does: line 144 runs when the parameter loop ends without an error;
\* an error leaves the layer where lines 119-120 put it
C17_AsCodedStep ==
    (StagesCurrentLayer /\ vars' # vars) =>
        IF Len(stack') = Len(stack)
        THEN staging'[CurrentId] = [device |-> "cpu", dtype |-> "float32"]
        ELSE staging'[CurrentId]
                 = [device |-> ModuleDevice(resolve_lora_key(Root, CurrentLayer.key,
                                                             Top.prefix).module),
                    dtype |-> "float32"]

C17_StagingReleasedOnSuccess == [][C17_AsCodedStep]_vars

(***************************************************************************)
(* C18  Resolver / restore agreement: for every key for which              *)
(* _resolve_lora_key returns (module_key, module), looking module_key up   *)
(* from the model root yields that module, so that                         *)
(* model.get_parameter(module_key + "." + param_name) is the parameter     *)
(* module.get_parameter(param_name) that _patch_model mutated; also for    *)
(* keys with empty tokens.                                                 *)
(***************************************************************************)
Agrees(found) ==
    /\ get_submodule(Root, found.module_key) = [ok |-> TRUE, module |-> found.module]
    /\ \A param_name \in ModuleParameters(found.module) :
           get_parameter(Root, found.module_key \o << "." >> \o param_name)
               = get_parameter(found.module, param_name)

C18_ResolverRestoreAgreement ==
    (Resolved /\ probe.result.ok) => Agrees(probe.result)

\* the two lookups agree for every key whose tokens are all non-empty
C18_AgreementNoEmptyToken ==
    (Resolved /\ probe.result.ok /\ NoEmptyToken(probe.key)) => Agrees(probe.result)

(***************************************************************************)
(* C19  Bookkeeping invariant: at every point of a _patch_model session    *)
(* modified_cached_weights and the keys of modified_weights are disjoint,  *)
(* modified_cached_weights is a subset of the keys of cached_weights, and  *)
(* every key a delta has been added to is in exactly one of the two; no    *)
(* parameter is modified without a recorded way to restore it.             *)
(***************************************************************************)
Bookkept(session) ==
    /\ session.modified_cached_weights \cap SavedKeys(session.modified_weights) = { }
    /\ session.modified_cached_weights \subseteq DOMAIN Cache(session)
    /\ \A k \in TouchedKeys(session) :
           (k \in session.modified_cached_weights) # (k \in SavedKeys(session.modified_weights))

C19_Bookkeeping ==
    /\ \A session \in Sessions : Bookkept(session)
    /\ (stack # << >> /\ Top.pc = "patching") =>
           \A q \in Parameters : params[q] # Top.pre[q] => q \in TouchedParameters(Top)

\* a session in the middle of its spec has changed the model under keys found in
\* cached_weights and under keys it had to save itself
C19_Witness ==
    /\ AtLayer
    /\ Top.modified_cached_weights # { }
    /\ Top.modified_weights # << >>
    /\ \E q \in TouchedParameters(Top) : params[q] # Top.pre[q]
    /\ Bookkept(Top)

(***************************************************************************)
(* C20  Nested sessions unwind LIFO: when a static_patch_model session B   *)
(* is opened inside a session A on the same model and touches keys A also  *)
(* touched, B's exit restores each of those keys to the value it had when  *)
(* B began (A's deltas still applied), and A's later exit restores the     *)
(* original values; without cached_weights and when A and B are given the  *)
(* same cached_weights map.  Stated for layer keys without empty tokens    *)
(* (those are C18) and a cached_weights that equals the model's values     *)
(* when A begins.                                                          *)
(***************************************************************************)
\* last is a static session B that patched to the end and has just left the
\* scope of the static session A it was opened in, which is still open
InnerExited ==
    /\ RestorationRan
    /\ last.depth >= 2
    /\ Len(stack) = last.depth - 1
    /\ Top.kind = "static"

\* last is a static session A inside which another scope was opened
OuterExited == RestorationRan /\ last.inner

Reached(modified_weights) ==
    IF \A j \in 1..Len(modified_weights) : get_parameter(Root, modified_weights[j][1]).ok
    THEN Len(modified_weights)
    ELSE (CHOOSE j \in 1..Len(modified_weights) :
              /\ ~get_parameter(Root, modified_weights[j][1]).ok
              /\ \A i \in 1..(j - 1) : get_parameter(Root, modified_weights[i][1]).ok) - 1

\* what the exit of the session wrote into parameter q, None when it wrote nothing
WrittenBack(session, q) ==
    IF StateDictKey(q) \in session.modified_cached_weights
    THEN Some(cached_weights[1][StateDictKey(q)])
    ELSE IF \E j \in 1..Reached(session.modified_weights) :
                session.modified_weights[j][1] = StateDictKey(q)
    THEN Some(SavedValue(session.modified_weights, StateDictKey(q)))
    ELSE None

\* every delta the session added to q was added under q's state-dict key
OnlyStateDictKey(session, q) ==
    \A i \in 1..Len(session.touched) :
        session.touched[i][2] = q => session.touched[i][1] = StateDictKey(q)

====
